---- MODULE Spec2Model ----
(***************************************************************************)
(* A model of the newc (SVR4) cpio codec of cpio-rs: src/src/newc.rs.      *)
(*                                                                         *)
(* Bytes are naturals 0..255.  A Rust u32 or usize is a "word": a record   *)
(* [hi, lo] standing for hi * 2^16 + lo with lo < 2^16, so that values up  *)
(* to 2^32 and beyond, the wrap-around of u32 arithmetic and the `as u32`  *)
(* truncation are all computed exactly.                                    *)
(***************************************************************************)
EXTENDS Integers, Sequences, FiniteSets, TLC

\* ------------------------------------------------------------------ bounds
\* Largest declared file size of an entry that the model writes.
MaxSize == 3
\* Largest (small) buffer handed to Writer::write or Reader::read.
MaxBuf == 2
\* Number of entries written to an archive before the trailer.
MaxEntries == 2

\* ------------------------------------------------------------------- words
\* A u32 or usize is kept as two halves, hi * 2^16 + lo, so that no intermediate
\* value leaves the range of the checker's integers.
B16 == 65536

W(n) == [hi |-> n \div B16, lo |-> n % B16]

U32_MAX == [hi |-> B16 - 1, lo |-> B16 - 1]

IsU32(w) == w.hi < B16

\* `x as u32`: keeps the low 32 bits.
AsU32(w) == [hi |-> w.hi % B16, lo |-> w.lo]

\* The value of a word known to be small.
Small(w) == w.hi * B16 + w.lo

WLe(a, b) == a.hi < b.hi \/ (a.hi = b.hi /\ a.lo <= b.lo)

WLt(a, b) == WLe(a, b) /\ a # b

\* The exact sum of two words.
WAdd(a, b) ==
    LET lo == a.lo + b.lo
    IN  [hi |-> a.hi + b.hi + (lo \div B16), lo |-> lo % B16]

\* The exact difference a - b of two words with b <= a.
WSub(a, b) ==
    LET borrow == IF a.lo < b.lo THEN 1 ELSE 0
    IN  [hi |-> a.hi - b.hi - borrow, lo |-> a.lo + borrow * B16 - b.lo]

\* u32 + u32: Rust panics on overflow in a debug build and wraps in a
\* release build.
U32AddOverflows(a, b) == ~IsU32(WAdd(a, b))

U32WrappingAdd(a, b) == AsU32(WAdd(a, b))

\* u32 - u32, wrapping.
U32WrappingSub(a, b) ==
    IF WLe(b, a) THEN WSub(a, b)
    ELSE WSub([hi |-> a.hi + B16, lo |-> a.lo], b)

WMod4(w) == w.lo % 4

RECURSIVE BitAndNat(_, _)
BitAndNat(a, b) ==
    IF a = 0 \/ b = 0 THEN 0
    ELSE (a % 2) * (b % 2) + 2 * BitAndNat(a \div 2, b \div 2)

\* a & b
WAnd(a, b) == [hi |-> BitAndNat(a.hi, b.hi), lo |-> BitAndNat(a.lo, b.lo)]

\* !a, of a u32
WNot(a) == [hi |-> B16 - 1 - a.hi, lo |-> B16 - 1 - a.lo]

\* a | b
WOr(a, b) ==
    [hi |-> a.hi + b.hi - BitAndNat(a.hi, b.hi), lo |-> a.lo + b.lo - BitAndNat(a.lo, b.lo)]

\* ------------------------------------------------------------------- bytes
Min(a, b) == IF a <= b THEN a ELSE b

Zeros(n) == [i \in 1..n |-> 0]

\* src/src/newc.rs:5
HEADER_LEN == 110

\* b"070701"
MAGIC_NUMBER_NEWASCII == <<48, 55, 48, 55, 48, 49>>

\* b"070702"
MAGIC_NUMBER_NEWCRC == <<48, 55, 48, 55, 48, 50>>

\* "TRAILER!!!"
TRAILER_NAME == <<84, 82, 65, 73, 76, 69, 82, 33, 33, 33>>

\* A bug: four bytes of padding after a length that is a multiple of 4.
pad_full(len) == Zeros(4 - WMod4(len))

\* pad(len): Some(vec![0; 4 - len % 4]) when len is not a multiple of 4, else
\* None.  None is the empty sequence: Some(..) is never empty.
pad(len) ==
    LET overhang == WMod4(len)
    IN  IF overhang # 0 THEN Zeros(4 - overhang) ELSE <<>>

\* -------------------------------------------------------------- formatting
\* One lowercase hexadecimal digit, as its ASCII code.
HexChar(d) == IF d < 10 THEN 48 + d ELSE 87 + d

RECURSIVE HexNat(_)
\* The hexadecimal digits of a natural, most significant first, no padding.
HexNat(n) == IF n < 16 THEN <<HexChar(n)>> ELSE HexNat(n \div 16) \o <<HexChar(n % 16)>>

\* Left-pads s with the character c to at least `width` characters.
PadLeft(s, width, c) ==
    IF Len(s) >= width THEN s ELSE [i \in 1..(width - Len(s)) |-> c] \o s

HexWord(w) ==
    IF w.hi = 0 THEN HexNat(w.lo) ELSE HexNat(w.hi) \o PadLeft(HexNat(w.lo), 4, 48)

\* A bug: "{:x}", no zero padding.
fmt08x_unpadded(v) == HexWord(v)

\* format!("{:08x}", v): lowercase hex, zero-padded to a MINIMUM width of 8.
fmt08x(v) == PadLeft(HexWord(v), 8, 48)

\* ----------------------------------------------------------------- Builder
\* Option<u32>
None == [some |-> FALSE, val |-> W(0)]

Some(v) == [some |-> TRUE, val |-> v]

unwrap_or(o, d) == IF o.some THEN o.val ELSE d

\* Builder::new
Builder_new(name) ==
    [name |-> name, ino |-> W(0), mode |-> W(0), uid |-> W(0), gid |-> W(0),
     nlink |-> W(1), mtime |-> W(0), dev_major |-> W(0), dev_minor |-> W(0),
     rdev_major |-> W(0), rdev_minor |-> W(0)]

Builder_ino(self, ino) == [self EXCEPT !.ino = ino]

Builder_mode(self, mode) == [self EXCEPT !.mode = mode]

Builder_uid(self, uid) == [self EXCEPT !.uid = uid]

\* A bug: the setter of gid assigns uid.
Builder_gid_uid(self, gid) == [self EXCEPT !.uid = gid]

Builder_gid(self, gid) == [self EXCEPT !.gid = gid]

Builder_nlink(self, nlink) == [self EXCEPT !.nlink = nlink]

Builder_mtime(self, mtime) == [self EXCEPT !.mtime = mtime]

Builder_dev_major(self, dev_major) == [self EXCEPT !.dev_major = dev_major]

Builder_dev_minor(self, dev_minor) == [self EXCEPT !.dev_minor = dev_minor]

Builder_rdev_major(self, rdev_major) == [self EXCEPT !.rdev_major = rdev_major]

Builder_rdev_minor(self, rdev_minor) == [self EXCEPT !.rdev_minor = rdev_minor]

\* ModeFileType::MASK = 0o170000
ModeFileType_MASK == W(61440)

ModeFileTypes ==
    {"Symlink", "Fifo", "Char", "Block", "NetworkSpecial", "Socket", "Directory", "Regular"}

\* impl From<ModeFileType> for u32
ModeFileType_u32(m) ==
    CASE m = "Fifo" -> W(4096)
      [] m = "Char" -> W(8192)
      [] m = "Directory" -> W(16384)
      [] m = "Block" -> W(24576)
      [] m = "Regular" -> W(32768)
      [] m = "NetworkSpecial" -> W(36864)
      [] m = "Symlink" -> W(40960)
      [] m = "Socket" -> W(49152)

\* A bug: the bits of the mask are not cleared before the type is set.
Builder_set_mode_file_type_uncleared(self, file_type) ==
    [self EXCEPT !.mode = WOr(@, ModeFileType_u32(file_type))]

\* Builder::set_mode_file_type
Builder_set_mode_file_type(self, file_type) ==
    [self EXCEPT !.mode = WOr(WAnd(@, WNot(ModeFileType_MASK)), ModeFileType_u32(file_type))]

\* into_header: c_magic
HeaderMagic(file_checksum) ==
    IF file_checksum.some THEN MAGIC_NUMBER_NEWCRC ELSE MAGIC_NUMBER_NEWASCII

\* A bug: the NUL terminator is not counted.
NameSize_unterminated(name) == Len(name)

\* into_header: let name_len = self.name.len() + 1
NameSize(name) == Len(name) + 1

\* A bug: uid and gid appended in the wrong order.
HeaderFields_swapped(self, file_size, file_checksum) ==
    << self.ino, self.mode, self.gid, self.uid, self.nlink, self.mtime,
       file_size, self.dev_major, self.dev_minor, self.rdev_major,
       self.rdev_minor, W(Len(self.name) + 1), unwrap_or(file_checksum, W(0)) >>

\* into_header: the thirteen numeric fields, in the order they are appended.
HeaderFields(self, file_size, file_checksum) ==
    << self.ino, self.mode, self.uid, self.gid, self.nlink, self.mtime,
       file_size, self.dev_major, self.dev_minor, self.rdev_major,
       self.rdev_minor, W(NameSize(self.name)), unwrap_or(file_checksum, W(0)) >>

RECURSIVE FormatFields(_)
FormatFields(fields) ==
    IF fields = <<>> THEN <<>>
    ELSE fmt08x(Head(fields)) \o FormatFields(Tail(fields))

\* A bug: the header and name are not padded.
HeaderPad_none(name) == <<>>

\* into_header: pad out to a multiple of 4 bytes
HeaderPad(name) == pad(W(HEADER_LEN + NameSize(name)))

\* Builder::into_header
into_header(self, file_size, file_checksum) ==
    HeaderMagic(file_checksum)
        \o FormatFields(HeaderFields(self, file_size, file_checksum))
        \o self.name \o <<0>>
        \o HeaderPad(self.name)

\* ----------------------------------------------------------------- parsing
RECURSIVE Utf8From(_, _)
\* std::str::from_utf8 succeeds on s from index i on.
Utf8From(s, i) ==
    LET n == Len(s)
        b(k) == s[i + k]
        cont(k) == i + k <= n /\ b(k) >= 128 /\ b(k) <= 191
        in(k, lo, hi) == i + k <= n /\ b(k) >= lo /\ b(k) <= hi
    IN  IF i > n THEN TRUE
        ELSE IF b(0) <= 127 THEN Utf8From(s, i + 1)
        ELSE IF b(0) >= 194 /\ b(0) <= 223 THEN cont(1) /\ Utf8From(s, i + 2)
        ELSE IF b(0) = 224 THEN in(1, 160, 191) /\ cont(2) /\ Utf8From(s, i + 3)
        ELSE IF b(0) = 237 THEN in(1, 128, 159) /\ cont(2) /\ Utf8From(s, i + 3)
        ELSE IF b(0) >= 225 /\ b(0) <= 239 THEN cont(1) /\ cont(2) /\ Utf8From(s, i + 3)
        ELSE IF b(0) = 240 THEN in(1, 144, 191) /\ cont(2) /\ cont(3) /\ Utf8From(s, i + 4)
        ELSE IF b(0) >= 241 /\ b(0) <= 243 THEN cont(1) /\ cont(2) /\ cont(3) /\ Utf8From(s, i + 4)
        ELSE IF b(0) = 244 THEN in(1, 128, 143) /\ cont(2) /\ cont(3) /\ Utf8From(s, i + 4)
        ELSE FALSE

IsUtf8(s) == Utf8From(s, 1)

\* char::to_digit(16): the value of a hexadecimal digit, or -1.
to_digit(c) ==
    IF c >= 48 /\ c <= 57 THEN c - 48
    ELSE IF c >= 97 /\ c <= 102 THEN c - 87
    ELSE IF c >= 65 /\ c <= 70 THEN c - 55
    ELSE -1

\* u32::from_str_radix(_, 16) accepts one leading '+' before the digits.
StripSign(s) == IF Len(s) > 1 /\ s[1] = 43 THEN Tail(s) ELSE s

RECURSIVE AccumulateHex(_, _)
\* result = result * 16 + digit, over the digits of s.
AccumulateHex(acc, s) ==
    IF s = <<>> THEN acc
    ELSE LET t == acc.lo * 16 + to_digit(Head(s))
         IN  AccumulateHex([hi |-> acc.hi * 16 + (t \div B16), lo |-> t % B16], Tail(s))

\* u32::from_str_radix(string, 16) on the 8 bytes of a field.
from_str_radix(s) ==
    LET digits == StripSign(s)
        wellformed == s # <<>> /\ \A i \in 1..Len(digits) : to_digit(digits[i]) >= 0
        v == IF wellformed THEN AccumulateHex(W(0), digits) ELSE W(0)
    IN  [ok |-> wellformed /\ IsU32(v), val |-> v]

\* read_hex_u32 on a stream holding `bytes`, at position pos.
read_hex_u32(bytes, pos) ==
    IF pos + 8 > Len(bytes) THEN [ok |-> FALSE, err |-> "UnexpectedEof", val |-> W(0)]
    ELSE LET field == SubSeq(bytes, pos + 1, pos + 8)
             r == from_str_radix(field)
         IN  IF IsUtf8(field) /\ r.ok
             THEN [ok |-> TRUE, err |-> "", val |-> r.val]
             ELSE [ok |-> FALSE, err |-> "InvalidData", val |-> W(0)]

\* ------------------------------------------------------------------ Reader
Err(kind) == [ok |-> FALSE, err |-> kind]

\* A bug: only the first four bytes of the magic number are compared.
MagicType_prefix(magic) ==
    IF SubSeq(magic, 1, 4) # SubSeq(MAGIC_NUMBER_NEWASCII, 1, 4) THEN ""
    ELSE IF magic = MAGIC_NUMBER_NEWCRC THEN "Crc"
    ELSE "Newc"

\* Reader::new: the entry type the magic number selects, "" when it is neither.
MagicType(magic) ==
    IF magic = MAGIC_NUMBER_NEWASCII THEN "Newc"
    ELSE IF magic = MAGIC_NUMBER_NEWCRC THEN "Crc"
    ELSE ""

\* Reader::new: where the i-th numeric field starts, the header starting at pos.
FieldPos(pos, i) == pos + 6 + 8 * (i - 1)

\* Reader::new: the thirteen read_hex_u32 calls, the header starting at pos.
ReadFields(bytes, pos) == [i \in 1..13 |-> read_hex_u32(bytes, FieldPos(pos, i))]

\* Reader::new: the first of the thirteen fields that read_hex_u32 fails on, or 0.
FirstBadField(fields) ==
    LET bad == {i \in 1..13 : ~fields[i].ok}
    IN  IF bad = {} THEN 0 ELSE CHOOSE i \in bad : \A j \in bad : i <= j

RECURSIVE StripTrailingNuls(_)
\* Reader::new: while name_bytes.last() == Some(&0) { name_bytes.pop(); }
StripTrailingNuls(s) ==
    IF s # <<>> /\ s[Len(s)] = 0 THEN StripTrailingNuls(SubSeq(s, 1, Len(s) - 1)) ELSE s

\* A bug: the terminator of the name is not checked.
NulTerminated_unchecked(name_bytes) == TRUE

\* Reader::new: name_bytes.last() == Some(&0)
NulTerminated(name_bytes) == name_bytes # <<>> /\ name_bytes[Len(name_bytes)] = 0

\* A bug: only the terminator is removed, further trailing NULs stay in the name.
DecodeName_terminator(name_bytes) == SubSeq(name_bytes, 1, Len(name_bytes) - 1)

\* Reader::new: the name read from the name_len bytes of the name field.
DecodeName(name_bytes) == StripTrailingNuls(SubSeq(name_bytes, 1, Len(name_bytes) - 1))

\* Reader::new: the padding read after the name.
NamePad(name_len) == pad(WAdd(W(HEADER_LEN), name_len))

\* Reader::new on a stream holding `bytes`, of which pos are consumed.
\* Ok: the Reader and the stream's new position.
Reader_new(bytes, pos) ==
    LET fields == ReadFields(bytes, pos)
        f(i) == fields[i].val
        bad == FirstBadField(fields)
        name_len == f(12)
        name_pos == pos + HEADER_LEN
        name_end == name_pos + Small(name_len)
        name_bytes == SubSeq(bytes, name_pos + 1, name_end)
        padding == NamePad(name_len)
    IN  IF pos + 6 > Len(bytes) THEN Err("UnexpectedEof")
        ELSE IF MagicType(SubSeq(bytes, pos + 1, pos + 6)) = "" THEN Err("InvalidData")
        ELSE IF bad # 0 THEN Err(fields[bad].err)
        ELSE IF name_len.hi # 0 \/ name_end > Len(bytes) THEN Err("UnexpectedEof")
        ELSE IF ~NulTerminated(name_bytes) THEN Err("InvalidData")
        ELSE IF ~IsUtf8(DecodeName(name_bytes)) THEN Err("InvalidData")
        ELSE IF name_end + Len(padding) > Len(bytes) THEN Err("UnexpectedEof")
        ELSE [ok |-> TRUE, err |-> "",
              pos |-> name_end + Len(padding),
              reader |->
                [entry |->
                   [entry_type |-> MagicType(SubSeq(bytes, pos + 1, pos + 6)),
                    name |-> DecodeName(name_bytes),
                    ino |-> f(1), mode |-> f(2), uid |-> f(3), gid |-> f(4),
                    nlink |-> f(5), mtime |-> f(6), file_size |-> f(7),
                    dev_major |-> f(8), dev_minor |-> f(9),
                    rdev_major |-> f(10), rdev_minor |-> f(11),
                    checksum |-> f(13)],
                 bytes_read |-> W(0)]]

\* A bug: only an empty entry is taken for the trailer.
is_trailer_empty(entry) == entry.name = TRAILER_NAME /\ entry.file_size = W(0)

\* Entry::is_trailer
is_trailer(entry) == entry.name = TRAILER_NAME

\* A bug: a checksum of 0 is taken for no checksum, whatever the magic number.
checksum_nonzero(entry) == IF entry.checksum # W(0) THEN Some(entry.checksum) ELSE None

\* Entry::checksum
checksum(entry) == IF entry.entry_type = "Crc" THEN Some(entry.checksum) ELSE None

\* Reader: let remaining = self.entry.file_size - self.bytes_read
Remaining(reader) == U32WrappingSub(reader.entry.file_size, reader.bytes_read)

\* A bug: the read is not limited to what is left of the entry.
ReadLimit_unbounded(buf_len, remaining) == buf_len

\* Reader::read: let limit = buf.len().min(remaining as usize)
ReadLimit(buf_len, remaining) ==
    IF WLe(W(buf_len), remaining) THEN buf_len ELSE Small(remaining)

\* A bug: io::copy on the stream itself, not on inner.take(remaining).
CopyCount_all(bytes, pos, remaining) == Len(bytes) - pos

\* Reader::finish, Reader::to_writer: the bytes io::copy moves out of
\* inner.take(remaining): it stops at the limit or at the end of the stream.
CopyCount(bytes, pos, remaining) ==
    LET avail == Len(bytes) - pos
    IN  IF WLe(W(avail), remaining) THEN avail ELSE Small(remaining)

\* A bug: the payload padding is computed from the bytes read so far.
DataPad_read(reader) == pad(reader.bytes_read)

\* A bug: the padding after the data is left in the stream.
DataPad_none(reader) == <<>>

\* Reader::finish, Reader::to_writer, Reader::skip: the padding after the data.
DataPad(reader) == pad(reader.entry.file_size)

\* Reader::finish and Reader::to_writer. Ok: the stream's position and the bytes
\* copied out of it.
Reader_finish(reader, bytes, pos) ==
    LET remaining == Remaining(reader)
        n == IF WLt(W(0), remaining) THEN CopyCount(bytes, pos, remaining) ELSE 0
        padding == DataPad(reader)
    IN  IF pos + n + Len(padding) > Len(bytes)
        THEN [ok |-> FALSE, err |-> "UnexpectedEof", pos |-> pos + n,
              copied |-> SubSeq(bytes, pos + 1, pos + n)]
        ELSE [ok |-> TRUE, err |-> "", pos |-> pos + n + Len(padding),
              copied |-> SubSeq(bytes, pos + 1, pos + n)]

\* A bug: the seek skips the data and not its padding.
SkipDistance_unpadded(reader) == Remaining(reader)

\* Reader::skip: the distance of the seek. The i64 holds any u32 plus 3.
SkipDistance(reader) == WAdd(Remaining(reader), W(Len(DataPad(reader))))

\* ------------------------------------------------------------------ Writer
\* Builder::write, Builder::write_crc: the Writer they build. Its `inner` is the
\* output stream, which the model keeps in the variable `out`.
NewWriter(self, file_size, file_checksum) ==
    LET header == into_header(self, file_size, file_checksum)
    IN  [written |-> W(0), file_size |-> file_size,
         header_size |-> Len(header), header |-> header]

\* A bug: the header is written but never truncated, so it is sent again.
try_write_header_keeps(w, inner) == [w |-> w, inner |-> inner \o w.header]

\* Writer::try_write_header: the Writer and its stream afterwards.
try_write_header(w, inner) ==
    IF w.header # <<>>
    THEN [w |-> [w EXCEPT !.header = <<>>], inner |-> inner \o w.header]
    ELSE [w |-> w, inner |-> inner]

\* A bug: the payload is never padded.
FinishPad_none(w) == <<>>

\* A bug: the entry is padded whether or not its payload is complete.
FinishPad_always(w) == pad(WAdd(W(w.header_size), w.written))

\* Writer::do_finish: the padding written when written == file_size.
FinishPad(w) ==
    IF w.written = w.file_size
    THEN pad(WAdd(W(w.header_size), w.file_size))
    ELSE <<>>

\* Writer::do_finish: the Writer and its stream afterwards, and whether the
\* stream was flushed.
do_finish(w, inner) ==
    LET h == try_write_header(w, inner)
        padding == FinishPad(h.w)
    IN  [w |-> h.w, inner |-> h.inner \o padding, flushed |-> padding # <<>>]

\* Writer::write: if self.written + buf.len() as u32 <= self.file_size
WriteAccepted(w, buf_len) ==
    WLe(U32WrappingAdd(w.written, AsU32(buf_len)), w.file_size)

\* Writer::write: whether the u32 addition of the size check overflows.
WriteCheckOverflows(w, buf_len) == U32AddOverflows(w.written, AsU32(buf_len))

\* A bug: the Writer of the trailer is dropped, not finished.
trailer_dropped(inner) == inner

\* trailer(w): the stream afterwards.
trailer(inner) ==
    LET b == Builder_nlink(Builder_new(TRAILER_NAME), W(1))
    IN  do_finish(NewWriter(b, W(0), None), inner).inner

\* ------------------------------------------------------------------- state
VARIABLES
    builder,  \* the Builder being configured (SpecBuilder)
    out,      \* the bytes of the output stream (the Vec<u8> the tests write to)
    wstate,   \* "idle": no Writer; "open": `writer` owns the stream; "panicked"
    writer,   \* the Writer, when wstate = "open"
    wres,     \* the last Builder/Writer call and what it returned
    log,      \* per entry written: its Builder, declared size, offsets, payload sent
    phase,    \* "writing", then "reading" once the bytes are handed to a Reader
    pos,      \* bytes of `out` consumed by reading
    rstate,   \* "idle": the caller holds the stream; "open": `reader` does; "failed"
    reader,   \* the Reader, when rstate = "open"
    ridx,     \* number of Readers created so far
    got,      \* the bytes Reader::read returned for the current entry
    sink,     \* the bytes Reader::to_writer wrote for the current entry
    rres      \* the last Reader call and what it returned

vars == <<builder, out, wstate, writer, wres, log, phase,
          pos, rstate, reader, ridx, got, sink, rres>>

bvars == <<builder>>

wvars == <<out, wstate, writer, wres, log>>

rvars == <<pos, rstate, reader, ridx, got, sink, rres>>

\* ------------------------------------------------------------------ inputs
\* "", "a", "ab", "abc": every residue of 110 + namesize modulo 4.
PlainNames == { <<>>, <<97>>, <<97, 98>>, <<97, 98, 99>> }

\* "a\0": a name that ends in a NUL character.
NulName == <<97, 0>>

\* Builder::new(name) with every setter called, on distinct values.
FullBuilder(name) ==
    Builder_rdev_minor(Builder_rdev_major(Builder_dev_minor(Builder_dev_major(
    Builder_mtime(Builder_nlink(Builder_gid(Builder_uid(Builder_mode(Builder_ino(
        Builder_new(name),
        W(1)), [hi |-> 0, lo |-> 33188]), W(1000)), [hi |-> 1, lo |-> 0]), W(2)),
        [hi |-> 26000, lo |-> 513]), W(8)), W(9)), [hi |-> 43981, lo |-> 61185]), U32_MAX)

\* The Builders of a one-entry archive.
EntryBuilders ==
    {Builder_new(name) : name \in PlainNames \cup {NulName, TRAILER_NAME}}
        \cup {FullBuilder(<<46, 47, 97>>)}

\* The Builders of an archive of several entries.
ArchiveBuilders == {Builder_new(NulName), FullBuilder(<<46, 47, 97>>)}

FileSizes == {W(n) : n \in 0..MaxSize}

Checksums == {W(0), [hi |-> 4660, lo |-> 22136]}

SmallLens == {W(n) : n \in 0..MaxBuf}

\* Lengths of the buffers given to Writer::write: small ones, and 2^32 - 1 and
\* 2^32, which a usize holds and a u32 does not (or only just).
BufLens == SmallLens \cup {U32_MAX, [hi |-> B16, lo |-> 0]}

\* The source a careless caller copies into an entry holds DataLen bytes.
DataLen == MaxSize + 2

\* The data copied into the e-th entry.
Data(e) == [i \in 1..DataLen |-> IF i = 2 THEN 0 ELSE 64 + 16 * e + i]

NoWriter == [written |-> W(0), file_size |-> W(0), header_size |-> 0, header |-> <<>>]

NoReader ==
    [entry |-> [entry_type |-> "Newc", name |-> <<>>, ino |-> W(0), mode |-> W(0),
                uid |-> W(0), gid |-> W(0), nlink |-> W(0), mtime |-> W(0),
                file_size |-> W(0), dev_major |-> W(0), dev_minor |-> W(0),
                rdev_major |-> W(0), rdev_minor |-> W(0), checksum |-> W(0)],
     bytes_read |-> W(0)]

WRes(op, ok, err, n, buf_len, w, flushed) ==
    [op |-> op, ok |-> ok, err |-> err, n |-> n, buf_len |-> buf_len,
     written |-> w.written, file_size |-> w.file_size, pending |-> w.header # <<>>,
     len0 |-> Len(out), flushed |-> flushed]

RRes(op, ok, err, n, buf_len) ==
    [op |-> op, ok |-> ok, err |-> err, n |-> n, buf_len |-> buf_len, pos0 |-> pos,
     bytes_read0 |-> reader.bytes_read]

InitStreams ==
    /\ out = <<>>
    /\ wstate = "idle"
    /\ writer = NoWriter
    /\ wres = WRes("", TRUE, "", 0, W(0), NoWriter, FALSE)
    /\ log = <<>>
    /\ phase = "writing"
    /\ pos = 0
    /\ rstate = "idle"
    /\ reader = NoReader
    /\ ridx = 0
    /\ got = <<>>
    /\ sink = <<>>
    /\ rres = [op |-> "", ok |-> TRUE, err |-> "", n |-> 0, buf_len |-> 0, pos0 |-> 0,
               bytes_read0 |-> W(0)]

Init ==
    /\ builder = Builder_new(<<>>)
    /\ InitStreams

\* ---------------------------------------------------------- Writer actions
OpenWriter(self, file_size, file_checksum, op) ==
    /\ phase = "writing"
    /\ wstate = "idle"
    /\ writer' = NewWriter(self, file_size, file_checksum)
    /\ wstate' = "open"
    /\ wres' = WRes(op, TRUE, "", 0, W(0), NoWriter, FALSE)
    /\ log' = Append(log, [builder |-> self, file_size |-> file_size,
                           checksum |-> file_checksum, start |-> Len(out),
                           end |-> Len(out), payload |-> <<>>, finished |-> FALSE])
    /\ UNCHANGED <<bvars, out, phase, rvars>>

\* Builder::write, on one of the given Builders.
Builder_write(builders, sizes) ==
    \E self \in builders, file_size \in sizes :
        OpenWriter(self, file_size, None, "Builder::write")

\* Builder::write_crc, on one of the given Builders.
Builder_write_crc(builders, sizes) ==
    \E self \in builders, file_size \in sizes, file_checksum \in Checksums :
        OpenWriter(self, file_size, Some(file_checksum), "Builder::write_crc")

\* The numbers of bytes the underlying stream may take of a buffer of buf_len
\* bytes, of which the source still holds `left`.
AcceptCounts(buf_len, left) ==
    IF buf_len = W(0) \/ left = 0 THEN {0}
    ELSE 1..Min(IF WLe(buf_len, W(MaxBuf)) THEN Small(buf_len) ELSE MaxBuf, left)

\* A bug: the pending header is sent before the size check rejects the write.
Writer_write_rejects_late(buf_len) ==
    /\ ~WriteAccepted(writer, buf_len)
    /\ out' = try_write_header(writer, out).inner
    /\ writer' = try_write_header(writer, out).w
    /\ wres' = WRes("write", FALSE, "UnexpectedEof", 0, buf_len, writer, FALSE)
    /\ UNCHANGED <<wstate, log>>

\* Writer::write, rejecting.
Writer_write_rejects(buf_len) ==
    /\ ~WriteAccepted(writer, buf_len)
    /\ wres' = WRes("write", FALSE, "UnexpectedEof", 0, buf_len, writer, FALSE)
    /\ UNCHANGED <<out, wstate, writer, log>>

\* Writer::write, accepting: the header if still pending, then n bytes of buf.
Writer_write_accepts(buf_len, left) ==
    /\ WriteAccepted(writer, buf_len)
    /\ \E n \in AcceptCounts(buf_len, left) :
        LET h == try_write_header(writer, out)
            e == Len(log)
            sent == Len(log[e].payload)
            bytes == SubSeq(Data(e), sent + 1, sent + n)
        IN  /\ out' = h.inner \o bytes
            /\ writer' = [h.w EXCEPT !.written = U32WrappingAdd(h.w.written, AsU32(W(n)))]
            /\ log' = [log EXCEPT ![e].payload = @ \o bytes]
            /\ wres' = WRes("write", TRUE, "", n, buf_len, writer, FALSE)
            /\ UNCHANGED wstate

\* Writer::write in a build with overflow checks: the addition panics.
Writer_write_panics(buf_len) ==
    /\ WriteCheckOverflows(writer, buf_len)
    /\ wstate' = "panicked"
    /\ wres' = WRes("write", FALSE, "panic", 0, buf_len, writer, FALSE)
    /\ UNCHANGED <<out, writer, log>>

\* impl Write for Writer: write(buf), buf any buffer holding the next bytes of
\* a source of DataLen bytes.
Writer_write ==
    /\ wstate = "open"
    /\ \E buf_len \in BufLens :
        \/ Writer_write_rejects(buf_len)
        \/ Writer_write_accepts(buf_len, DataLen - Len(log[Len(log)].payload))
        \/ Writer_write_panics(buf_len)
    /\ UNCHANGED <<bvars, phase, rvars>>

\* impl Write for Writer: write(buf) as io::copy calls it on a source that holds
\* exactly the declared number of bytes; buf is never longer than what is left.
Writer_write_copy ==
    /\ wstate = "open"
    /\ LET left == Small(writer.file_size) - Len(log[Len(log)].payload)
       IN  /\ left > 0
           /\ \E n \in 1..Min(MaxBuf, left) : Writer_write_accepts(W(n), left)
    /\ UNCHANGED <<bvars, phase, rvars>>

\* impl Write for Writer: flush
Writer_flush ==
    /\ wstate = "open"
    /\ wres' = WRes("flush", TRUE, "", 0, W(0), writer, TRUE)
    /\ UNCHANGED <<bvars, out, wstate, writer, log, phase, rvars>>

\* Writer::finish
Writer_finish ==
    /\ wstate = "open"
    /\ LET f == do_finish(writer, out)
       IN  /\ out' = f.inner
           /\ writer' = f.w
           /\ wres' = WRes("finish", TRUE, "", 0, W(0), writer, f.flushed)
           /\ log' = [log EXCEPT ![Len(log)].finished = TRUE,
                                 ![Len(log)].end = Len(f.inner)]
    /\ wstate' = "idle"
    /\ UNCHANGED <<bvars, phase, rvars>>

\* Writer::finish once the source is copied whole.
Writer_finish_copied ==
    /\ Len(log) > 0
    /\ Len(log[Len(log)].payload) = Small(writer.file_size)
    /\ Writer_finish

\* trailer(w); its bytes end the archive, which is then read back.
Trailer ==
    /\ phase = "writing"
    /\ wstate = "idle"
    /\ out' = trailer(out)
    /\ wres' = WRes("trailer", TRUE, "", 0, W(0), NoWriter, FALSE)
    /\ phase' = "reading"
    /\ UNCHANGED <<bvars, wstate, writer, log, rvars>>

\* ---------------------------------------------------------- Reader actions
\* Reader::new(stream) on the archive written.
NewReader ==
    /\ phase = "reading"
    /\ rstate = "idle"
    /\ LET r == Reader_new(out, pos)
       IN  IF r.ok
           THEN /\ reader' = r.reader
                /\ pos' = r.pos
                /\ rstate' = "open"
                /\ ridx' = ridx + 1
                /\ rres' = RRes("new", TRUE, "", 0, 0)
           ELSE /\ rstate' = "failed"
                /\ rres' = RRes("new", FALSE, r.err, 0, 0)
                /\ UNCHANGED <<reader, pos, ridx>>
    /\ got' = <<>>
    /\ sink' = <<>>
    /\ UNCHANGED <<bvars, wvars, phase>>

\* The numbers of bytes the underlying stream may return to a read of `limit`
\* bytes: at least one unless it is at its end, any number up to the limit.
ReadCounts(limit) ==
    IF pos >= Len(out) THEN {0} ELSE 1..Min(limit, Len(out) - pos)

\* impl Read for Reader: read, with a buffer of buf_len bytes.
Reader_read ==
    /\ rstate = "open"
    /\ \E buf_len \in 0..MaxBuf :
        LET limit == ReadLimit(buf_len, Remaining(reader))
        IN  IF limit > 0
            THEN \E num_bytes \in ReadCounts(limit) :
                    /\ reader' = [reader EXCEPT !.bytes_read =
                                     U32WrappingAdd(@, AsU32(W(num_bytes)))]
                    /\ got' = got \o SubSeq(out, pos + 1, pos + num_bytes)
                    /\ pos' = pos + num_bytes
                    /\ rres' = RRes("read", TRUE, "", num_bytes, buf_len)
            ELSE /\ rres' = RRes("read", TRUE, "", 0, buf_len)
                 /\ UNCHANGED <<reader, got, pos>>
    /\ UNCHANGED <<bvars, wvars, phase, rstate, ridx, sink>>

\* Reader::finish
Reader_finish_ ==
    /\ rstate = "open"
    /\ LET f == Reader_finish(reader, out, pos)
       IN  /\ pos' = f.pos
           /\ rstate' = IF f.ok THEN "idle" ELSE "failed"
           /\ rres' = RRes("finish", f.ok, f.err, 0, 0)
    /\ UNCHANGED <<bvars, wvars, phase, reader, ridx, got, sink>>

\* Reader::to_writer
Reader_to_writer ==
    /\ rstate = "open"
    /\ LET f == Reader_finish(reader, out, pos)
       IN  /\ pos' = f.pos
           /\ sink' = sink \o f.copied
           /\ rstate' = IF f.ok THEN "idle" ELSE "failed"
           /\ rres' = RRes("to_writer", f.ok, f.err, Len(f.copied), 0)
    /\ UNCHANGED <<bvars, wvars, phase, reader, ridx, got>>

\* Reader::skip: the position after the seek, which may lie past the end.
SkipPos(r, p) ==
    LET remaining == SkipDistance(r)
    IN  IF WLt(W(0), remaining) THEN p + Small(remaining) ELSE p

\* Reader::skip
Reader_skip ==
    /\ rstate = "open"
    /\ pos' = SkipPos(reader, pos)
    /\ rstate' = "idle"
    /\ rres' = RRes("skip", TRUE, "", 0, 0)
    /\ UNCHANGED <<bvars, wvars, phase, reader, ridx, got, sink>>

\* ---------------------------------------------------------- specifications
\* One entry, copied whole, then the trailer; the archive is read back.
Next ==
    \/ Len(log) < 1 /\ Builder_write(EntryBuilders, FileSizes)
    \/ Len(log) < 1 /\ Builder_write_crc(EntryBuilders, FileSizes)
    \/ Writer_write_copy
    \/ Writer_finish_copied
    \/ Trailer
    \/ NewReader
    \/ Reader_read
    \/ Reader_finish_
    \/ Reader_to_writer
    \/ Reader_skip

Spec == Init /\ [][Next]_vars

\* Up to MaxEntries entries, each copied whole, then the trailer; the archive is
\* read back.
NextArchive ==
    \/ Len(log) < MaxEntries /\ Builder_write(ArchiveBuilders, FileSizes)
    \/ Writer_write_copy
    \/ Writer_finish_copied
    \/ Trailer
    \/ NewReader
    \/ Reader_read
    \/ Reader_finish_
    \/ Reader_to_writer
    \/ Reader_skip

SpecArchive == Init /\ [][NextArchive]_vars

\* Up to MaxEntries entries, each copied whole, then the trailer; nothing is
\* read back.
NextWriting ==
    \/ Len(log) < MaxEntries /\ Builder_write(EntryBuilders, FileSizes)
    \/ Writer_write_copy
    \/ Writer_finish_copied
    \/ Trailer

SpecWriting == Init /\ [][NextWriting]_vars

\* One Writer under any sequence of calls, with buffers of any length.
NextWriter ==
    \/ Len(log) < 1 /\ Builder_write(EntryBuilders, FileSizes)
    \/ Len(log) < 1 /\ Builder_write_crc(EntryBuilders, FileSizes)
    \/ Writer_write
    \/ Writer_flush
    \/ Writer_finish
    \/ Trailer

SpecWriter == Init /\ [][NextWriter]_vars

\* --------------------------------------------------------- Builder actions
\* Number of setters a Builder of the model has been through, at most.
MaxSet == 2

BuilderNames == PlainNames

FieldValues == {W(0), [hi |-> 4660, lo |-> 43981], U32_MAX}

HeaderSizes == {W(MaxSize), U32_MAX}

BuilderFields ==
    {"ino", "mode", "uid", "gid", "nlink", "mtime",
     "dev_major", "dev_minor", "rdev_major", "rdev_minor"}

\* The fields of b that differ from those of Builder::new.
Changed(b) == {f \in BuilderFields : b[f] # Builder_new(b.name)[f]}

\* The Builder becomes b, another setter call having been made on it.
Configure(b) ==
    /\ wstate = "idle"
    /\ log = <<>>
    /\ Cardinality(Changed(b)) <= MaxSet
    /\ builder' = b
    /\ UNCHANGED <<wvars, phase, rvars>>

Set_ino == \E v \in FieldValues : Configure(Builder_ino(builder, v))

Set_mode == \E v \in FieldValues : Configure(Builder_mode(builder, v))

Set_uid == \E v \in FieldValues : Configure(Builder_uid(builder, v))

Set_gid == \E v \in FieldValues : Configure(Builder_gid(builder, v))

Set_nlink == \E v \in FieldValues : Configure(Builder_nlink(builder, v))

Set_mtime == \E v \in FieldValues : Configure(Builder_mtime(builder, v))

Set_dev_major == \E v \in FieldValues : Configure(Builder_dev_major(builder, v))

Set_dev_minor == \E v \in FieldValues : Configure(Builder_dev_minor(builder, v))

Set_rdev_major == \E v \in FieldValues : Configure(Builder_rdev_major(builder, v))

Set_rdev_minor == \E v \in FieldValues : Configure(Builder_rdev_minor(builder, v))

Set_mode_file_type ==
    \E t \in ModeFileTypes : Configure(Builder_set_mode_file_type(builder, t))

\* Builder::new(name), any setters, then Builder::write or Builder::write_crc.
InitBuilder ==
    /\ builder \in {Builder_new(name) : name \in BuilderNames}
    /\ InitStreams

NextBuilder ==
    \/ Set_ino
    \/ Set_mode
    \/ Set_uid
    \/ Set_gid
    \/ Set_nlink
    \/ Set_mtime
    \/ Set_dev_major
    \/ Set_dev_minor
    \/ Set_rdev_major
    \/ Set_rdev_minor
    \/ Set_mode_file_type
    \/ Len(log) < 1 /\ Builder_write({builder}, HeaderSizes)
    \/ Len(log) < 1 /\ Builder_write_crc({builder}, HeaderSizes)

SpecBuilder == InitBuilder /\ [][NextBuilder]_vars

\* Builder::new(name) and any setters.
NextSetters ==
    \/ Set_ino
    \/ Set_mode
    \/ Set_uid
    \/ Set_gid
    \/ Set_nlink
    \/ Set_mtime
    \/ Set_dev_major
    \/ Set_dev_minor
    \/ Set_rdev_major
    \/ Set_rdev_minor
    \/ Set_mode_file_type

\* Builder::new("") or Builder::new("a").
InitSetters ==
    /\ builder \in {Builder_new(<<>>), Builder_new(<<97>>)}
    /\ InitStreams

SpecSetters == InitSetters /\ [][NextSetters]_vars

\* Builder::new(name), then mode, uid and set_mode_file_type in any order.
NextModeType ==
    \/ Set_mode
    \/ Set_uid
    \/ Set_mode_file_type

SpecModeType == InitBuilder /\ [][NextModeType]_vars

\* ------------------------------------------------------ streams to decode
\* Streams handed to Reader::new that no Writer of this crate need have written.

\* The number of zero bytes that align n to a multiple of 4.
PadLen(n) == (4 - (n % 4)) % 4

\* The 8 characters of a header field holding n < 16.
Dec8(n) == [i \in 1..8 |-> IF i < 8 THEN 48 ELSE IF n < 10 THEN 48 + n ELSE 87 + n]

\* The thirteen fields of a header, all zero but nlink, filesize, namesize, check.
BaseFields(nlink, file_size, name_len, check) ==
    [i \in 1..13 |-> Dec8(CASE i = 5 -> nlink [] i = 7 -> file_size
                            [] i = 12 -> name_len [] i = 13 -> check [] OTHER -> 0)]

\* The bytes of an entry: magic, fields, name field, padding, payload, padding.
Frame(magic, fields, name_field, payload) ==
    magic \o fields[1] \o fields[2] \o fields[3] \o fields[4] \o fields[5]
          \o fields[6] \o fields[7] \o fields[8] \o fields[9] \o fields[10]
          \o fields[11] \o fields[12] \o fields[13]
          \o name_field \o Zeros(PadLen(HEADER_LEN + Len(name_field)))
          \o payload \o Zeros(PadLen(Len(payload)))

PayloadBytes(n) == [i \in 1..n |-> 64 + i]

\* "070701", "070702" and four sequences that are neither.
Magics ==
    { <<48, 55, 48, 55, 48, 49>>, <<48, 55, 48, 55, 48, 50>>, <<48, 55, 48, 55, 48, 51>>,
      <<48, 55, 48, 55, 48, 48>>, <<49, 55, 48, 55, 48, 49>>, <<48, 55, 48, 55, 48, 0>> }

\* "00000001", "0000000F", "0000000g", "+0000001", "-0000001", " 0000001",
\* "0x000001", and 7 zeros before the byte 0xFF.
FieldTexts ==
    { <<48, 48, 48, 48, 48, 48, 48, 49>>, <<48, 48, 48, 48, 48, 48, 48, 70>>,
      <<48, 48, 48, 48, 48, 48, 48, 103>>, <<43, 48, 48, 48, 48, 48, 48, 49>>,
      <<45, 48, 48, 48, 48, 48, 48, 49>>, <<32, 48, 48, 48, 48, 48, 48, 49>>,
      <<48, 120, 48, 48, 48, 48, 48, 49>>, <<48, 48, 48, 48, 48, 48, 48, 255>> }

\* Name fields: "", "\0", "a", "a\0", "TRAILER!!!\0", "TRAILER!!!\0\0",
\* "TRAILER!!!", "TRAILER!!\0", "trailer!!!\0" and 0xFF "\0".
NameFields ==
    { <<>>, <<0>>, <<97>>, <<97, 0>>,
      <<84, 82, 65, 73, 76, 69, 82, 33, 33, 33, 0>>,
      <<84, 82, 65, 73, 76, 69, 82, 33, 33, 33, 0, 0>>,
      <<84, 82, 65, 73, 76, 69, 82, 33, 33, 33>>,
      <<84, 82, 65, 73, 76, 69, 82, 33, 33, 0>>,
      <<116, 114, 97, 105, 108, 101, 114, 33, 33, 33, 0>>,
      <<255, 0>> }

\* A well-formed entry named "a" but for its magic.
MagicStreams == {Frame(m, BaseFields(1, 0, 2, 0), <<97, 0>>, <<>>) : m \in Magics}

\* A well-formed entry named "a" but for one of its fields.
FieldStreams ==
    {Frame(MAGIC_NUMBER_NEWASCII, [BaseFields(1, 0, 2, 0) EXCEPT ![i] = t], <<97, 0>>, <<>>) :
        i \in 1..13, t \in FieldTexts}

\* Entries of either magic with any name field, the namesize being its length.
NameStreams ==
    {Frame(m, BaseFields(nl, fs, Len(nf), ck), nf, PayloadBytes(fs)) :
        m \in {MAGIC_NUMBER_NEWASCII, MAGIC_NUMBER_NEWCRC}, nl \in 0..1, fs \in 0..1,
        ck \in {0, 7}, nf \in NameFields}

\* A well-formed entry named "ab" of each size.
WholeStreams ==
    {Frame(MAGIC_NUMBER_NEWASCII, BaseFields(1, n, 3, 0), <<97, 98, 0>>, PayloadBytes(n)) :
        n \in 0..MaxSize + 1}

\* The same, cut at any length.
TruncatedStreams == UNION {{SubSeq(s, 1, l) : l \in 0..Len(s)} : s \in WholeStreams}

DecodeStreams == MagicStreams \cup FieldStreams \cup NameStreams \cup TruncatedStreams

\* A caller holds a stream of bytes and no Writer.
InitReader ==
    /\ builder = Builder_new(<<>>)
    /\ out \in DecodeStreams
    /\ wstate = "idle"
    /\ writer = NoWriter
    /\ wres = WRes("", TRUE, "", 0, W(0), NoWriter, FALSE)
    /\ log = <<>>
    /\ phase = "reading"
    /\ pos = 0
    /\ rstate = "idle"
    /\ reader = NoReader
    /\ ridx = 0
    /\ got = <<>>
    /\ sink = <<>>
    /\ rres = [op |-> "", ok |-> TRUE, err |-> "", n |-> 0, buf_len |-> 0, pos0 |-> 0,
               bytes_read0 |-> W(0)]

\* Any sequence of Reader calls on the stream.
NextReader ==
    \/ NewReader
    \/ Reader_read
    \/ Reader_finish_
    \/ Reader_to_writer
    \/ Reader_skip

SpecReader == InitReader /\ [][NextReader]_vars

\* A Reader is given the bytes a Writer wrote, or any of the streams above.
SpecCodec == (Init \/ InitReader) /\ [][Next]_vars

\* ---------------------------------------------------------- archive driver
\* write_archive(entries, output): for each (Builder, source) pair it measures
\* the source, assigns ino = sequence index, builds and drains a Writer; then it
\* appends the trailer.

\* The Builders of the pairs given to the driver: "a", and "ab" with uid 5, ino 7.
DriverBuilders ==
    {Builder_new(<<97>>), Builder_ino(Builder_uid(Builder_new(<<97, 98>>), W(5)), W(7))}

\* The total lengths of the sources given to the driver.
SourceLens == {0, 1, MaxSize}

\* A bug: the driver leaves the Builder's own ino.
DriverBuilder_keeps(b, idx) == b

\* The Builder the driver writes for the pair of index idx, counted from 0.
DriverBuilder(b, idx) == Builder_ino(b, W(idx))

\* The driver takes the next pair and opens its Writer.
Driver_open ==
    /\ phase = "writing"
    /\ wstate = "idle"
    /\ Len(log) < MaxEntries
    /\ \E b \in DriverBuilders, n \in SourceLens :
        LET self == DriverBuilder(b, Len(log))
        IN  /\ writer' = NewWriter(self, W(n), None)
            /\ log' = Append(log, [builder |-> self, file_size |-> W(n),
                                   checksum |-> None, start |-> Len(out),
                                   end |-> Len(out), payload |-> <<>>,
                                   finished |-> FALSE, given |-> b,
                                   source |-> SubSeq(Data(Len(log) + 1), 1, n)])
    /\ wstate' = "open"
    /\ wres' = WRes("write_archive", TRUE, "", 0, W(0), NoWriter, FALSE)
    /\ UNCHANGED <<bvars, out, phase, rvars>>

\* The driver: each pair's Writer opened, drained into and finished, then the
\* trailer.
NextDriver ==
    \/ Driver_open
    \/ Writer_write_copy
    \/ Writer_finish_copied
    \/ Trailer

SpecDriver == Init /\ [][NextDriver]_vars

\* ------------------------------------------------- the Builder of lib.rs
\* lib.rs, pad(len): the length is a usize.
lib_pad(len) ==
    LET overhang == len % 4
    IN  IF overhang # 0 THEN Zeros(4 - overhang) ELSE <<>>

\* lib.rs, Builder::new
lib_Builder_new(name) ==
    [name |-> name, ino |-> W(0), mode |-> W(0), uid |-> W(0), gid |-> W(0),
     nlink |-> W(1), mtime |-> W(0), dev_major |-> W(0), dev_minor |-> W(0),
     rdev_major |-> W(0), rdev_minor |-> W(0)]

\* lib.rs, Builder::ino
lib_Builder_ino(self, ino) == [self EXCEPT !.ino = ino]

\* lib.rs, Builder::into_header: the magic "070701", the thirteen fields with
\* name_len = self.name.len() as namesize and 0 as check, the name, and
\* pad(name_len).
lib_into_header(self, file_size) ==
    LET name_len == Len(self.name)
    IN  <<48, 55, 48, 55, 48, 49>>
            \o FormatFields(<<self.ino, self.mode, self.uid, self.gid, self.nlink,
                              self.mtime, file_size, self.dev_major, self.dev_minor,
                              self.rdev_major, self.rdev_minor, W(name_len), W(0)>>)
            \o self.name
            \o lib_pad(name_len)

\* lib.rs, Writer::try_write_header
lib_try_write_header(w, inner) ==
    IF Len(w.header) # 0
    THEN [w |-> [w EXCEPT !.header = <<>>], inner |-> inner \o w.header]
    ELSE [w |-> w, inner |-> inner]

\* lib.rs, Writer::do_finish: the padding it hands to inner.write.
lib_FinishPad(w) ==
    IF w.written = w.file_size
    THEN lib_pad(w.header_size + Small(w.file_size))
    ELSE <<>>

\* The Builders of lib.rs the archive is written with.
LibBuilders ==
    {lib_Builder_new(name) : name \in PlainNames \cup {NulName}}
        \cup {lib_Builder_ino(lib_Builder_new(name), W(1)) : name \in PlainNames \cup {NulName}}

\* lib.rs, Builder::write
Lib_Builder_write ==
    /\ phase = "writing"
    /\ wstate = "idle"
    /\ Len(log) < 1
    /\ \E self \in LibBuilders, file_size \in FileSizes :
        LET header == lib_into_header(self, file_size)
        IN  /\ writer' = [written |-> W(0), file_size |-> file_size,
                          header_size |-> Len(header), header |-> header]
            /\ log' = Append(log, [builder |-> self, file_size |-> file_size,
                                   checksum |-> None, start |-> Len(out),
                                   end |-> Len(out), payload |-> <<>>,
                                   finished |-> FALSE])
    /\ wstate' = "open"
    /\ wres' = WRes("lib::Builder::write", TRUE, "", 0, W(0), NoWriter, FALSE)
    /\ UNCHANGED <<bvars, out, phase, rvars>>

\* lib.rs, impl Write for Writer: write(buf) as io::copy calls it on a source
\* that holds exactly the declared number of bytes.
Lib_Writer_write ==
    /\ wstate = "open"
    /\ LET left == Small(writer.file_size) - Len(log[1].payload)
       IN  /\ left > 0
           /\ \E buf_len \in 1..Min(MaxBuf, left) : \E n \in 1..buf_len :
               /\ WLe(U32WrappingAdd(writer.written, AsU32(W(buf_len))), writer.file_size)
               /\ LET h == lib_try_write_header(writer, out)
                      sent == Len(log[1].payload)
                      bytes == SubSeq(Data(1), sent + 1, sent + n)
                  IN  /\ out' = h.inner \o bytes
                      /\ writer' = [h.w EXCEPT !.written =
                                        U32WrappingAdd(h.w.written, AsU32(W(n)))]
                      /\ log' = [log EXCEPT ![1].payload = @ \o bytes]
                      /\ wres' = WRes("write", TRUE, "", n, W(buf_len), writer, FALSE)
    /\ UNCHANGED <<bvars, wstate, phase, rvars>>

\* lib.rs, Writer::finish once the source is copied whole: the pending header,
\* then as much of the padding as inner.write takes; the archive is then read
\* back.
Lib_Writer_finish ==
    /\ wstate = "open"
    /\ Len(log[1].payload) = Small(writer.file_size)
    /\ LET h == lib_try_write_header(writer, out)
           padding == lib_FinishPad(h.w)
       IN  \E k \in (IF padding = <<>> THEN {0} ELSE 1..Len(padding)) :
               /\ out' = h.inner \o SubSeq(padding, 1, k)
               /\ writer' = h.w
               /\ wres' = WRes("finish", TRUE, "", k, W(0), writer, padding # <<>>)
               /\ log' = [log EXCEPT ![1].finished = TRUE,
                                     ![1].end = Len(h.inner) + k]
    /\ wstate' = "idle"
    /\ phase' = "reading"
    /\ UNCHANGED <<bvars, rvars>>

\* One entry written with the Builder of lib.rs, then decoded by Reader::new.
NextLib ==
    \/ Lib_Builder_write
    \/ Lib_Writer_write
    \/ Lib_Writer_finish
    \/ NewReader

SpecLib == Init /\ [][NextLib]_vars

\* ------------------------------------------------------------------ claims
EndsInNul(name) == name # <<>> /\ name[Len(name)] = 0

IsPrefix(s, t) == Len(s) <= Len(t) /\ s = SubSeq(t, 1, Len(s))

\* The decoded entry carries the numeric metadata, the declared size and the
\* checksum variant of the logged entry e.
SameMeta(entry, e) ==
    /\ \A f \in BuilderFields : entry[f] = e.builder[f]
    /\ entry.file_size = e.file_size
    /\ checksum(entry) = e.checksum

\* The Reader on the i-th logged entry has returned a prefix of its payload, all
\* of it once bytes_read reaches file_size or a read into a non-empty buffer
\* returns 0.
PayloadReadBack(e) ==
    /\ IsPrefix(got, e.payload)
    /\ reader.bytes_read = reader.entry.file_size => got = e.payload
    /\ (rres.op = "read" /\ rres.buf_len > 0 /\ rres.n = 0) => got = e.payload

\* What C1 says of the one entry of the archive, the name being compared when
\* `named` holds.
RoundTripOne(named) ==
    /\ (rres.op = "new" /\ rres.pos0 = 0) => rres.ok
    /\ (rstate = "open" /\ ridx = 1) =>
          /\ named => reader.entry.name = log[1].builder.name
          /\ SameMeta(reader.entry, log[1])
          /\ PayloadReadBack(log[1])

\* C1 as claimed: an entry written with Builder::write(stream, n), its n payload
\* bytes and Writer::finish is decoded by Reader::new to the same name and
\* metadata, file_size n and the checksum variant written, and reading the
\* Reader to exhaustion returns exactly the payload, for ANY name.
C1_RoundTripAnyName ==
    (phase = "reading" /\ Len(log) = 1) => RoundTripOne(TRUE)

\* C1, amended: the same, the name being returned unchanged when it does not
\* end in a NUL character (Reader::new strips the trailing NULs of a name).
C1_RoundTrip ==
    (phase = "reading" /\ Len(log) = 1) =>
        RoundTripOne(~EndsInNul(log[1].builder.name))

\* The full-metadata entry of MaxSize bytes has been read to exhaustion.
C1_Witness ==
    /\ phase = "reading" /\ Len(log) = 1 /\ rstate = "open" /\ ridx = 1
    /\ log[1].builder = FullBuilder(<<46, 47, 97>>)
    /\ log[1].checksum = None
    /\ reader.entry.file_size = W(MaxSize)
    /\ Len(got) = MaxSize
    /\ rres.op = "read" /\ rres.buf_len > 0 /\ rres.n = 0

\* What C2 says of an archive of several entries and a trailer, the names being
\* compared for the entries that `named` holds of.
Sequenced(named(_)) ==
    phase = "reading" =>
        /\ ridx <= Len(log) + 1
        /\ (rres.op = "new" /\ ~rres.ok) => ridx = Len(log) + 1 /\ pos = Len(out)
        /\ (rstate = "open" /\ ridx <= Len(log)) =>
              /\ named(log[ridx].builder.name) =>
                    reader.entry.name = log[ridx].builder.name
              /\ SameMeta(reader.entry, log[ridx])
              /\ PayloadReadBack(log[ridx])
        /\ (rstate = "open" /\ ridx = Len(log) + 1) =>
              is_trailer(reader.entry) /\ reader.entry.file_size = W(0)

AnyName(name) == TRUE

NotEndingInNul(name) == ~EndsInNul(name)

\* C2 as claimed: the entries written one after the other and the trailer are
\* read back by Reader::new / read / finish in the same order, with matching
\* names, sizes and payload, and the Reader after the last entry is the trailer.
C2_SequencedAnyName == Sequenced(AnyName)

\* C2, amended: the same, the names matching for the entries whose name does not
\* end in a NUL character.
C2_Sequenced == Sequenced(NotEndingInNul)

\* Two entries have been read back and the trailer's Reader is open.
C2_Witness ==
    /\ phase = "reading" /\ Len(log) = 2 /\ ridx = 3 /\ rstate = "open"
    /\ log[1].file_size = W(MaxSize) /\ log[2].file_size = W(1)
    /\ log[1].builder # log[2].builder

\* C3 as claimed: Writer::write(buf) fails with ExceedsDeclaredSize (ErrorKind
\* UnexpectedEof) exactly when written + len(buf) > file_size, the sum being
\* the sum of the two numbers.
C3_SizeEnforcement ==
    wres.op = "write" =>
        (WLt(wres.file_size, WAdd(wres.written, wres.buf_len))
            <=> (~wres.ok /\ wres.err = "UnexpectedEof"))

\* The bytes of the one entry of the archive, as C4 lays them out.
EntryLayout(e) ==
    LET h == into_header(e.builder, e.file_size, e.checksum)
        n == Small(e.file_size)
    IN  h \o e.payload \o Zeros((4 - ((Len(h) + n) % 4)) % 4)

\* C4: when Writer::finish is called with written == file_size, the bytes sent
\* for the entry are the header, exactly file_size payload bytes and exactly
\* (4 - (header_len + file_size) % 4) % 4 zero bytes: a multiple of 4 in all.
C4_FinishPads ==
    (wres.op = "finish" /\ wres.written = wres.file_size) =>
        LET e == log[Len(log)]
        IN  /\ Len(e.payload) = Small(e.file_size)
            /\ SubSeq(out, e.start + 1, Len(out)) = EntryLayout(e)
            /\ ((Len(out) - e.start) % 4) = 0

\* An entry of 1 byte and a 3-character name is finished: three bytes of padding.
C4_Witness ==
    /\ wres.op = "finish" /\ wres.written = wres.file_size
    /\ wres.file_size = W(1)
    /\ Len(log[1].builder.name) = 3
    /\ Len(out) = wres.len0 + 3

\* The value of a lowercase hexadecimal digit, -1 for any other character.
LowerHexValue(c) ==
    IF c >= 48 /\ c <= 57 THEN c - 48
    ELSE IF c >= 97 /\ c <= 102 THEN c - 87
    ELSE -1

\* The number that four hexadecimal digits write.
Hex4(s) ==
    LowerHexValue(s[1]) * 4096 + LowerHexValue(s[2]) * 256
        + LowerHexValue(s[3]) * 16 + LowerHexValue(s[4])

\* The i-th 8-byte field of a header.
FieldOf(h, i) == SubSeq(h, 6 + 8 * (i - 1) + 1, 6 + 8 * i)

\* The 8 bytes s are lowercase hexadecimal digits that write the number v.
Writes(s, v) ==
    /\ Len(s) = 8
    /\ \A k \in 1..8 : LowerHexValue(s[k]) >= 0
    /\ v = [hi |-> Hex4(SubSeq(s, 1, 4)), lo |-> Hex4(SubSeq(s, 5, 8))]

\* C5: the header of Builder::into_header has namesize = len(name) + 1, and
\* after the name's NUL terminator exactly (4 - L % 4) % 4 zero bytes, with
\* L = 110 + namesize, and nothing else: its length is a multiple of 4.
C5_HeaderPadding ==
    (wstate = "open" /\ writer.header # <<>>) =>
        LET h == writer.header
            name == log[Len(log)].builder.name
            L == 110 + Len(name) + 1
            k == (4 - (L % 4)) % 4
        IN  /\ Writes(FieldOf(h, 12), W(Len(name) + 1))
            /\ Len(h) = L + k
            /\ h[L] = 0
            /\ \A i \in (L + 1)..Len(h) : h[i] = 0
            /\ (Len(h) % 4) = 0

\* The header of a Builder with a 2-character name: 3 bytes of padding.
C5_Witness ==
    /\ wstate = "open" /\ writer.header # <<>>
    /\ Len(builder.name) = 2
    /\ Len(writer.header) = 116
    /\ Cardinality(Changed(builder)) = MaxSet

\* The thirteen numbers of the header of the logged entry e, in wire order.
WireFields(e) ==
    << e.builder.ino, e.builder.mode, e.builder.uid, e.builder.gid,
       e.builder.nlink, e.builder.mtime, e.file_size, e.builder.dev_major,
       e.builder.dev_minor, e.builder.rdev_major, e.builder.rdev_minor,
       W(Len(e.builder.name) + 1),
       IF e.checksum.some THEN e.checksum.val ELSE W(0) >>

\* C6: the header starts with the 6-byte magic, followed by thirteen fields of
\* exactly 8 lowercase zero-padded hexadecimal digits, in the order ino, mode,
\* uid, gid, nlink, mtime, filesize, devmajor, devminor, rdevmajor, rdevminor,
\* namesize, check; the name starts at byte offset 110.
C6_HeaderLayout ==
    (wstate = "open" /\ writer.header # <<>>) =>
        LET h == writer.header
            e == log[Len(log)]
        IN  /\ SubSeq(h, 1, 6) \in {MAGIC_NUMBER_NEWASCII, MAGIC_NUMBER_NEWCRC}
            /\ \A i \in 1..13 : Writes(FieldOf(h, i), WireFields(e)[i])
            /\ SubSeq(h, 111, 110 + Len(e.builder.name)) = e.builder.name

\* A header holding 2^32 - 1 in two Builder fields, in the size and in the check.
C6_Witness ==
    /\ wstate = "open" /\ writer.header # <<>>
    /\ builder.mode = U32_MAX /\ builder.rdev_minor = [hi |-> 4660, lo |-> 43981]
    /\ builder.nlink = W(1)
    /\ writer.file_size = U32_MAX
    /\ log[1].checksum = Some([hi |-> 4660, lo |-> 22136])

\* C7: the bytes a Reader returns never exceed file_size: bytes_read <= file_size
\* in every state, it counts the bytes returned, no read fails, and a read made
\* once bytes_read == file_size returns 0 and consumes nothing of the stream.
C7_ReadBound ==
    phase = "reading" =>
        /\ WLe(reader.bytes_read, reader.entry.file_size)
        /\ rstate = "open" => Len(got) = Small(reader.bytes_read)
        /\ rres.op = "read" => rres.ok /\ rres.n <= rres.buf_len
        /\ (rres.op = "read" /\ rres.bytes_read0 = reader.entry.file_size) =>
              rres.n = 0 /\ pos = rres.pos0 /\ reader.bytes_read = rres.bytes_read0

\* A read into a non-empty buffer after the whole payload of the first of two
\* entries was read: the next entry's header follows in the stream.
C7_Witness ==
    /\ phase = "reading" /\ rstate = "open" /\ Len(log) = 2 /\ ridx = 1
    /\ rres.op = "read" /\ rres.buf_len = MaxBuf /\ rres.n = 0
    /\ rres.bytes_read0 = W(MaxSize) /\ reader.entry.file_size = W(MaxSize)

\* Where the i-th entry read ends in the stream: at the header of the next
\* entry written, at the trailer's, or at the end of the archive.
EntryEnd(i) == IF i <= Len(log) THEN log[i].end ELSE Len(out)

\* The payload of the i-th entry read; the trailer has none.
Payload(i) == IF i <= Len(log) THEN log[i].payload ELSE <<>>

\* C8: Reader::finish after k payload bytes were read consumes exactly
\* (file_size - k) + (4 - file_size % 4) % 4 further bytes and leaves the stream
\* at the first byte of the next entry's header.
C8_FinishPosition ==
    rres.op = "finish" =>
        LET n == Small(reader.entry.file_size)
            k == Small(rres.bytes_read0)
        IN  /\ rres.ok
            /\ pos - rres.pos0 = (n - k) + ((4 - (n % 4)) % 4)
            /\ pos = EntryEnd(ridx)
            /\ ridx <= Len(log) => SubSeq(out, pos + 1, pos + 6) = MAGIC_NUMBER_NEWASCII

\* finish after 1 of the 2 bytes of the first of two entries was read.
C8_Witness ==
    /\ rres.op = "finish" /\ Len(log) = 2 /\ ridx = 1
    /\ reader.entry.file_size = W(2) /\ rres.bytes_read0 = W(1)
    /\ pos = rres.pos0 + 3

\* C9: Reader::skip leaves the stream at the offset Reader::finish would leave
\* it at, the start of the next entry's header, and reads no payload byte.
C9_SkipIsFinish ==
    rres.op = "skip" =>
        LET f == Reader_finish(reader, out, rres.pos0)
        IN  /\ rres.ok /\ f.ok
            /\ pos = f.pos
            /\ pos = EntryEnd(ridx)
            /\ Len(got) = Small(rres.bytes_read0)

\* skip after 1 of the 3 bytes of the first of two entries was read.
C9_Witness ==
    /\ rres.op = "skip" /\ Len(log) = 2 /\ ridx = 1
    /\ reader.entry.file_size = W(MaxSize) /\ rres.bytes_read0 = W(1)
    /\ pos > rres.pos0

\* C10: Reader::to_writer after k payload bytes were read writes to the sink
\* exactly the payload bytes k..file_size, in order, no padding and no byte of
\* the next header, and leaves the stream at the next entry's header.
C10_ToWriterRemainder ==
    rres.op = "to_writer" =>
        LET p == Payload(ridx)
            k == Small(rres.bytes_read0)
        IN  /\ rres.ok
            /\ got = SubSeq(p, 1, k)
            /\ sink = SubSeq(p, k + 1, Len(p))
            /\ Len(p) = Small(reader.entry.file_size)
            /\ pos = EntryEnd(ridx)

\* to_writer after 1 of the 3 bytes of the first of two entries was read.
C10_Witness ==
    /\ rres.op = "to_writer" /\ Len(log) = 2 /\ ridx = 1
    /\ reader.entry.file_size = W(MaxSize) /\ rres.bytes_read0 = W(1)
    /\ Len(sink) = MaxSize - 1

\* C11: for every decoded Entry, is_trailer() is true if and only if its name
\* is "TRAILER!!!", whatever its size, link count, mode and magic number.
C11_TrailerDetection ==
    rstate = "open" =>
        (is_trailer(reader.entry) <=>
            reader.entry.name = <<84, 82, 65, 73, 76, 69, 82, 33, 33, 33>>)

\* An entry named "TRAILER!!!" of the CRC variant, with 1 byte and no link, is
\* decoded and is a trailer.
C11_Witness ==
    /\ rstate = "open" /\ is_trailer(reader.entry)
    /\ reader.entry.file_size = W(1) /\ reader.entry.nlink = W(0)
    /\ reader.entry.entry_type = "Crc"

\* The bytes of the stream from where the last Reader::new started.
Given == SubSeq(out, rres.pos0 + 1, Len(out))

ValidMagic(h) ==
    SubSeq(h, 1, 6) \in {<<48, 55, 48, 55, 48, 49>>, <<48, 55, 48, 55, 48, 50>>}

\* C12: Reader::new fails with InvalidData and yields no Reader whenever the
\* first 6 bytes of the stream are neither "070701" nor "070702"; it succeeds
\* only on these two, and does on an entry that is well-formed after the magic.
C12_BadMagic ==
    (rres.op = "new" /\ Len(Given) >= 6) =>
        /\ ~ValidMagic(Given) => ~rres.ok /\ rres.err = "InvalidData" /\ rstate = "failed"
        /\ rres.ok => ValidMagic(Given)
        /\ (ValidMagic(Given) /\ out \in MagicStreams /\ rres.pos0 = 0) =>
              rres.ok /\ rstate = "open"

\* Reader::new was given "070703" and the rest of a well-formed entry.
C12_Witness ==
    /\ rres.op = "new" /\ ~rres.ok /\ out \in MagicStreams
    /\ SubSeq(Given, 1, 6) = <<48, 55, 48, 55, 48, 51>>

\* The header h holds thirteen fields of lowercase hexadecimal digits after a
\* valid magic number, and a namesize below 2^16.
PlainHeader(h) ==
    /\ Len(h) >= HEADER_LEN
    /\ ValidMagic(h)
    /\ \A i \in 1..13 : \A k \in 1..8 : LowerHexValue(FieldOf(h, i)[k]) >= 0
    /\ Hex4(SubSeq(FieldOf(h, 12), 1, 4)) = 0

\* The namesize such a header declares.
DeclaredNameSize(h) == Hex4(SubSeq(FieldOf(h, 12), 5, 8))

\* C13: Reader::new fails with InvalidData, and returns no Entry, whenever the
\* last of the namesize bytes of the name is not NUL, or namesize is 0.
C13_MissingNul ==
    (rres.op = "new" /\ PlainHeader(Given)) =>
        LET n == DeclaredNameSize(Given)
        IN  (Len(Given) >= HEADER_LEN + n /\ (n = 0 \/ Given[HEADER_LEN + n] # 0)) =>
                ~rres.ok /\ rres.err = "InvalidData" /\ rstate = "failed"

\* Reader::new was given a header of namesize 1 whose name field is "a".
C13_Witness ==
    /\ rres.op = "new" /\ ~rres.ok /\ PlainHeader(Given)
    /\ DeclaredNameSize(Given) = 1 /\ Given[HEADER_LEN + 1] = 97

IsHexDigit(c) == (c >= 48 /\ c <= 57) \/ (c >= 97 /\ c <= 102) \/ (c >= 65 /\ c <= 70)

\* C14: Reader::new fails with InvalidData whenever one of the thirteen 8-byte
\* fields of the header holds a byte that is not a hexadecimal digit.
C14_NonHexRejected ==
    (rres.op = "new" /\ Len(Given) >= HEADER_LEN /\ ValidMagic(Given)) =>
        ((\E i \in 1..13 : \E k \in 1..8 : ~IsHexDigit(FieldOf(Given, i)[k])) =>
            ~rres.ok /\ rres.err = "InvalidData")

\* C15: when the stream ends inside the header, Reader::new fails with
\* UnexpectedEof; when it ends inside the payload or its padding, Reader::finish
\* and Reader::to_writer fail with UnexpectedEof.
C15_TruncationReported ==
    /\ (rres.op = "new" /\ rres.pos0 = 0 /\ out \in TruncatedStreams
            /\ Len(out) < HEADER_LEN + 3 + 3) =>
          ~rres.ok /\ rres.err = "UnexpectedEof"
    /\ (rres.op \in {"finish", "to_writer"} /\ reader.entry.file_size.hi = 0) =>
          LET n == reader.entry.file_size.lo
              left == n - Small(rres.bytes_read0)
          IN  rres.pos0 + left + PadLen(n) > Len(out) =>
                  ~rres.ok /\ rres.err = "UnexpectedEof"

\* C16: Builder::write emits magic "070701" and a check field of 0,
\* Builder::write_crc(c) emits magic "070702" and check = c; a decoded Entry's
\* checksum() is Some(its check field) if the magic was "070702" and None
\* otherwise, so that write_crc(c) reads back as Some(c) and write as None.
C16_ChecksumVariant ==
    /\ \A i \in 1..Len(log) :
          Len(out) >= log[i].start + HEADER_LEN =>
              LET h == SubSeq(out, log[i].start + 1, log[i].start + HEADER_LEN)
                  c == log[i].checksum
              IN  IF c.some
                  THEN SubSeq(h, 1, 6) = <<48, 55, 48, 55, 48, 50>>
                          /\ Writes(FieldOf(h, 13), c.val)
                  ELSE SubSeq(h, 1, 6) = <<48, 55, 48, 55, 48, 49>>
                          /\ Writes(FieldOf(h, 13), W(0))
    /\ (rres.op = "new" /\ rres.ok) =>
          /\ checksum(reader.entry).some <=>
                SubSeq(Given, 1, 6) = <<48, 55, 48, 55, 48, 50>>
          /\ ~checksum(reader.entry).some => checksum(reader.entry) = [some |-> FALSE, val |-> W(0)]
          /\ (checksum(reader.entry).some /\ PlainHeader(Given)) =>
                Writes(FieldOf(Given, 13), checksum(reader.entry).val)
          /\ ridx <= Len(log) => checksum(reader.entry) = log[ridx].checksum

\* An entry written by write_crc(0) is decoded: its checksum() is Some(0).
C16_Witness ==
    /\ rres.op = "new" /\ rres.ok /\ ridx = 1 /\ Len(log) = 1
    /\ log[1].checksum = [some |-> TRUE, val |-> W(0)]
    /\ checksum(reader.entry) = [some |-> TRUE, val |-> W(0)]

\* Where the bytes that trailer() wrote start.
TrailerStart == IF log = <<>> THEN 0 ELSE log[Len(log)].end

\* C17: trailer(w) appends exactly one complete entry, aligned to 4 bytes, named
\* "TRAILER!!!", with filesize 0, nlink 1 and no payload; Reader::new on these
\* bytes succeeds and reports is_trailer() = true and file_size() = 0.
C17_TrailerEntry ==
    phase = "reading" =>
        /\ SubSeq(out, TrailerStart + 1, Len(out)) =
              Frame(<<48, 55, 48, 55, 48, 49>>, BaseFields(1, 0, 11, 0),
                    <<84, 82, 65, 73, 76, 69, 82, 33, 33, 33, 0>>, <<>>)
        /\ Len(out) - TrailerStart = 124
        /\ wres.op = "trailer" /\ wres.len0 = TrailerStart
        /\ (rres.op = "new" /\ rres.pos0 = TrailerStart) =>
              /\ rres.ok /\ rstate = "open"
              /\ is_trailer(reader.entry)
              /\ reader.entry.file_size = W(0) /\ reader.entry.nlink = W(1)
              /\ pos = Len(out)

\* The trailer written after an entry of 2 bytes is decoded.
C17_Witness ==
    /\ phase = "reading" /\ Len(log) = 1 /\ log[1].file_size = W(2)
    /\ rres.op = "new" /\ rres.ok /\ rres.pos0 = TrailerStart /\ ridx = 2

\* The bytes of the k-th entry of the driver's archive, as C18 has them.
DriverEntry(k) ==
    LET g == log[k].given
    IN  Frame(<<48, 55, 48, 55, 48, 49>>,
              [BaseFields(g.nlink.lo, Len(log[k].source), Len(g.name) + 1, 0)
                  EXCEPT ![1] = Dec8(k - 1), ![3] = Dec8(g.uid.lo)],
              g.name \o <<0>>, log[k].source)

RECURSIVE DriverEntries(_)
\* The bytes of the first k entries, in input order.
DriverEntries(k) == IF k = 0 THEN <<>> ELSE DriverEntries(k - 1) \o DriverEntry(k)

\* C18: the driver emits the entries in input order, the i-th with ino = its
\* sequence index, whatever ino its Builder had, and filesize = the length of
\* its source, then exactly one trailer entry and nothing after it.
C18_DriverShape ==
    phase = "reading" =>
        out = DriverEntries(Len(log))
                \o Frame(<<48, 55, 48, 55, 48, 49>>, BaseFields(1, 0, 11, 0),
                         <<84, 82, 65, 73, 76, 69, 82, 33, 33, 33, 0>>, <<>>)

\* The driver has written two entries and the trailer; the second Builder had
\* ino 7 and the first source MaxSize bytes.
C18_Witness ==
    /\ phase = "reading" /\ Len(log) = 2
    /\ log[2].given.ino = W(7) /\ Len(log[1].source) = MaxSize

\* The Builder b after the setter of field f was called with v.
Setter(f, b, v) ==
    CASE f = "ino" -> Builder_ino(b, v)
      [] f = "mode" -> Builder_mode(b, v)
      [] f = "uid" -> Builder_uid(b, v)
      [] f = "gid" -> Builder_gid(b, v)
      [] f = "nlink" -> Builder_nlink(b, v)
      [] f = "mtime" -> Builder_mtime(b, v)
      [] f = "dev_major" -> Builder_dev_major(b, v)
      [] f = "dev_minor" -> Builder_dev_minor(b, v)
      [] f = "rdev_major" -> Builder_rdev_major(b, v)
      [] f = "rdev_minor" -> Builder_rdev_minor(b, v)

\* The step is a call of the setter of f with v, which gives f the value v and
\* leaves the name and every other field as they were; and it commutes with
\* the setter of any other field.
SetterFrame(f, v) ==
    builder' = Setter(f, builder, v) =>
        /\ builder'[f] = v
        /\ builder'.name = builder.name
        /\ \A g \in BuilderFields \ {f} :
              /\ builder'[g] = builder[g]
              /\ \A w \in {W(0), U32_MAX} :
                    Setter(g, builder', w) = Setter(f, Setter(g, builder, w), v)

\* Builder::new(name): nlink = 1 and every other numeric field 0.
NewDefaults ==
    /\ builder.name \in {<<>>, <<97>>}
    /\ builder.nlink = W(1)
    /\ \A f \in BuilderFields \ {"nlink"} : builder[f] = W(0)

\* C19: Builder::new(name) has nlink = 1 and every other numeric field 0; each
\* setter changes only its own field and leaves the name and the other fields
\* unchanged, so that calls of setters of distinct fields commute.
C19_SetterFrame ==
    /\ NewDefaults
    /\ [][builder' # builder =>
            \A f \in BuilderFields : \A v \in FieldValues : SetterFrame(f, v)]_vars

\* uid and mtime were set, in either order; the other fields are the defaults.
C19_Witness ==
    builder = [Builder_new(<<97>>) EXCEPT !.uid = U32_MAX,
                                          !.mtime = [hi |-> 4660, lo |-> 43981]]

\* The bits 12..15 of the mode that each file type stands for.
TypeBits(t) ==
    CASE t = "Fifo" -> 1 [] t = "Char" -> 2 [] t = "Directory" -> 4 [] t = "Block" -> 6
      [] t = "Regular" -> 8 [] t = "NetworkSpecial" -> 9 [] t = "Symlink" -> 10
      [] t = "Socket" -> 12

\* C20: set_mode_file_type(t) leaves the bits of the mode outside the mask
\* 0o170000 unchanged and makes the bits inside it those of t; applying the
\* same type twice equals applying it once, and of two calls the last wins.
C20_ModeFileType ==
    [][\A t \in ModeFileTypes :
         (builder'.mode # builder.mode
             /\ builder' = Builder_set_mode_file_type(builder, t)) =>
            /\ builder'.mode.hi = builder.mode.hi
            /\ (builder'.mode.lo % 4096) = (builder.mode.lo % 4096)
            /\ (builder'.mode.lo \div 4096) = TypeBits(t)
            /\ \A g \in BuilderFields \ {"mode"} : builder'[g] = builder[g]
            /\ builder'.name = builder.name
            /\ Builder_set_mode_file_type(builder', t) = builder'
            /\ \A u \in ModeFileTypes :
                  Builder_set_mode_file_type(builder', u)
                      = Builder_set_mode_file_type(builder, u)]_vars

\* mode was set to 0x1234abcd and then made that of a directory: 0x12344bcd.
C20_Witness ==
    builder.mode = [hi |-> 4660, lo |-> 19405]

\* The bytes sent to the stream for the one entry of SpecWriter so far.
SentFor(e) == SubSeq(out, e.start + 1, IF e.finished THEN e.end ELSE Len(out))

\* C21: Builder::write and Builder::write_crc send no byte; over any sequence
\* of write, flush and finish calls on one Writer the header is sent exactly
\* once, before any payload byte, at the first accepted write or, when no write
\* was accepted, at finish.
C21_LazyHeader ==
    Len(log) = 1 =>
        LET e == log[1]
            h == into_header(e.builder, e.file_size, e.checksum)
            sent == SentFor(e)
        IN  /\ wres.op \in {"Builder::write", "Builder::write_crc"} =>
                   /\ Len(out) = wres.len0
                   /\ writer.header = h
            /\ (~e.finished /\ writer.header # <<>>) =>
                   /\ sent = <<>>
                   /\ e.payload = <<>>
            /\ (~e.finished /\ writer.header = <<>>) => sent = h \o e.payload
            /\ e.finished =>
                   /\ IsPrefix(h \o e.payload, sent)
                   /\ Len(sent) - Len(h) - Len(e.payload) \in 0..3
            /\ (wres.op = "write" /\ wres.ok) =>
                   /\ writer.header = <<>>
                   /\ Len(out) = wres.len0 + (IF wres.pending THEN Len(h) ELSE 0) + wres.n
            /\ (wres.op = "flush" \/ (wres.op = "write" /\ ~wres.ok)) =>
                   /\ Len(out) = wres.len0
                   /\ (writer.header # <<>>) = wres.pending
            /\ (wres.op = "finish" /\ wres.pending) =>
                   /\ e.payload = <<>>
                   /\ IsPrefix(h, sent)

\* The first accepted write of a Writer takes one byte of a 3-byte entry: the
\* header goes out with it.
C21_Witness ==
    /\ Len(log) = 1 /\ wstate = "open"
    /\ wres.op = "write" /\ wres.ok /\ wres.pending /\ wres.n = 1
    /\ wres.file_size = W(MaxSize)
    /\ writer.header = <<>>
    /\ Len(out) = wres.len0 + writer.header_size + 1

\* C22: a write that fails with ExceedsDeclaredSize (ErrorKind UnexpectedEof)
\* sends no byte to the stream, neither header nor payload, leaves written
\* unchanged and a pending header pending, and a later write that fits is
\* still accepted.
C22_RejectedWriteChangesNothing ==
    [][(wres'.op = "write" /\ ~wres'.ok /\ wres'.err = "UnexpectedEof") =>
          /\ out' = out
          /\ writer'.written = writer.written
          /\ writer'.header = writer.header
          /\ log' = log
          /\ wstate' = "open"
          /\ \A k \in 0..MaxBuf :
                 WLe(WAdd(writer.written, W(k)), writer.file_size) =>
                     WriteAccepted(writer', W(k))]_vars

\* A write of 2 bytes is rejected by a Writer of a 1-byte entry whose header is
\* still pending; a write of 1 byte would fit.
C22_Witness ==
    /\ wstate = "open" /\ wres.op = "write" /\ ~wres.ok /\ wres.err = "UnexpectedEof"
    /\ wres.buf_len = W(2) /\ wres.file_size = W(1) /\ wres.written = W(0)
    /\ wres.pending /\ writer.header # <<>>
    /\ Len(out) = wres.len0

\* C23 as claimed: Writer::finish with written == file_size emits the alignment
\* padding and flushes the underlying stream, for every header length and
\* every file_size, those that need no padding byte included.
C23_FinishPadsAndFlushes ==
    (wres.op = "finish" /\ wres.written = wres.file_size) =>
        LET e == log[Len(log)]
            h == into_header(e.builder, e.file_size, e.checksum)
        IN  /\ Len(out) - e.start - Len(h) - Len(e.payload)
                   = PadLen(Len(h) + Small(e.file_size))
            /\ wres.flushed

\* C24: Writer::finish called with written < file_size succeeds, emits the
\* header if it was still pending and no padding byte: the bytes sent for the
\* entry are exactly the header and the payload bytes written.
C24_ShortFinish ==
    (wres.op = "finish" /\ WLt(wres.written, wres.file_size)) =>
        LET e == log[Len(log)]
            h == into_header(e.builder, e.file_size, e.checksum)
        IN  /\ wres.ok
            /\ wstate = "idle"
            /\ e.finished
            /\ Len(e.payload) = Small(wres.written)
            /\ SubSeq(out, e.start + 1, Len(out)) = h \o e.payload
            /\ wres.pending => Len(out) = wres.len0 + Len(h)
            /\ ~wres.pending => Len(out) = wres.len0

\* A Writer of a 3-byte entry with a 1-character name is finished after 1
\* byte: 113 bytes sent, none of them padding.
C24_Witness ==
    /\ wres.op = "finish" /\ wres.file_size = W(MaxSize) /\ wres.written = W(1)
    /\ ~wres.pending
    /\ Len(log[1].builder.name) = 1
    /\ Len(out) = 112 + 1

\* The name bytes without their trailing NUL bytes.
WithoutTrailingNuls(s) ==
    LET nz == {i \in 1..Len(s) : s[i] # 0}
    IN  SubSeq(s, 1, IF nz = {} THEN 0 ELSE CHOOSE i \in nz : \A j \in nz : j <= i)

\* C25: for a header whose namesize name bytes end in one or more NUL bytes,
\* Reader::new returns as name the name bytes with all trailing NULs removed
\* and consumes (4 - (110 + namesize) % 4) % 4 bytes of padding, computed from
\* the declared namesize, leaving the stream at the payload start. The header
\* is one Reader::new can decode otherwise: its name bytes are UTF-8 text and
\* the stream holds the padding.
C25_OverPaddedNames ==
    (rres.op = "new" /\ PlainHeader(Given)) =>
        LET n == DeclaredNameSize(Given)
            name_bytes == SubSeq(Given, HEADER_LEN + 1, HEADER_LEN + n)
        IN  (/\ n >= 1
             /\ Len(Given) >= HEADER_LEN + n + PadLen(HEADER_LEN + n)
             /\ Given[HEADER_LEN + n] = 0
             /\ \A i \in 1..n : Given[HEADER_LEN + i] < 128) =>
                /\ rres.ok
                /\ reader.entry.name = WithoutTrailingNuls(name_bytes)
                /\ pos = rres.pos0 + HEADER_LEN + n + PadLen(HEADER_LEN + n)

\* A header of namesize 12 whose name bytes end in two NULs is decoded: the
\* name has 10 characters and 2 bytes of padding are consumed, not 3.
C25_Witness ==
    /\ rres.op = "new" /\ rres.ok
    /\ PlainHeader(Given)
    /\ DeclaredNameSize(Given) = 12
    /\ Given[HEADER_LEN + 11] = 0 /\ Given[HEADER_LEN + 12] = 0
    /\ Len(reader.entry.name) = 10
    /\ pos = rres.pos0 + HEADER_LEN + 12 + 2

\* C26 as claimed: under the code's 32-bit arithmetic, for buffers of any
\* length a usize holds and any partial acceptance by the stream, written <=
\* file_size holds in every reachable state, and no write is accepted whose
\* true sum written + len(buf) exceeds file_size.
C26_NeverExceedsDeclaredSize ==
    /\ WLe(writer.written, writer.file_size)
    /\ (wres.op = "write" /\ wres.ok) =>
           WLe(WAdd(wres.written, wres.buf_len), wres.file_size)

\* C27: for every name length and every file_size, the number of pad bytes the
\* Writer emits after the payload, computed from header_size + file_size,
\* equals the number of pad bytes Reader::finish, Reader::to_writer and
\* Reader::skip consume, computed from file_size alone.
C27_PaddingAgreement ==
    (rres.op \in {"finish", "to_writer", "skip"} /\ ridx = 1 /\ Len(log) = 1) =>
        LET e == log[1]
            header_size == Len(into_header(e.builder, e.file_size, e.checksum))
            emitted == (e.end - e.start) - header_size - Small(e.file_size)
            consumed == (pos - rres.pos0)
                            - (Small(reader.entry.file_size) - Small(rres.bytes_read0))
        IN  /\ e.finished /\ Len(e.payload) = Small(e.file_size)
            /\ reader.entry.file_size = e.file_size
            /\ emitted = Len(pad(WAdd(W(header_size), e.file_size)))
            /\ consumed = emitted
            /\ pos = e.end

\* Reader::skip after 1 byte of a 1-byte entry with a 3-character name was
\* read: header of 116 bytes, and 3 pad bytes written and skipped.
C27_Witness ==
    /\ rres.op = "skip" /\ ridx = 1 /\ Len(log) = 1
    /\ Len(log[1].builder.name) = 3
    /\ log[1].file_size = W(1)
    /\ rres.bytes_read0 = W(1)
    /\ pos = rres.pos0 + 3
    /\ log[1].end - log[1].start = 116 + 1 + 3

\* C28: starting from an empty stream, after any sequence of entries each
\* completed with written == file_size and finish, and after trailer(), the
\* number of bytes in the stream is a multiple of 4, so every entry's header
\* and every entry's payload starts at an offset that is a multiple of 4.
C28_ArchiveAligned ==
    /\ wstate = "idle" => (Len(out) % 4) = 0
    /\ \A i \in 1..Len(log) :
           /\ (log[i].start % 4) = 0
           /\ log[i].finished =>
                  /\ Len(log[i].payload) = Small(log[i].file_size)
                  /\ (log[i].end % 4) = 0
    /\ Len(log) >= 1 =>
           LET e == log[Len(log)]
               payload_start == e.start + writer.header_size
           IN  /\ (payload_start % 4) = 0
               /\ writer.header = <<>> =>
                      SubSeq(out, payload_start + 1, payload_start + Len(e.payload))
                          = e.payload
    /\ phase = "reading" => (TrailerStart % 4) = 0 /\ Len(out) > TrailerStart

\* Two entries of 1 and 3 bytes and the trailer are written: the second header
\* starts right after the 3 pad bytes of the first payload.
C28_Witness ==
    /\ phase = "reading" /\ Len(log) = 2
    /\ log[1].file_size = W(1) /\ log[2].file_size = W(MaxSize)
    /\ log[2].start = log[1].end
    /\ SubSeq(out, log[1].end - 3, log[1].end) = log[1].payload \o Zeros(3)
    /\ Len(out) > TrailerStart

\* C29 as claimed: the Builder of lib.rs stores namesize = len(name) + 1,
\* writes the name followed by one NUL byte and pads with zero bytes so that
\* 110 + namesize rounds up to a multiple of 4, and Reader::new of newc.rs
\* decodes its header to the original name.
C29_LibLayout ==
    (rres.op = "new" /\ Len(log) = 1 /\ wres.op = "finish") =>
        LET e == log[1]
            name == e.builder.name
            namesize == Len(name) + 1
            h == SubSeq(out, 1, writer.header_size)
        IN  /\ Writes(FieldOf(h, 12), W(namesize))
            /\ SubSeq(h, HEADER_LEN + 1, HEADER_LEN + Len(name)) = name
            /\ Len(h) = HEADER_LEN + namesize + PadLen(HEADER_LEN + namesize)
            /\ SubSeq(h, HEADER_LEN + namesize, Len(h))
                   = Zeros(1 + PadLen(HEADER_LEN + namesize))
            /\ rres.ok
            /\ reader.entry.name = name

====
